---- MODULE Spec2Model ----
(***************************************************************************)
(* Model of streamlit_app.py: the Open-Meteo weather dashboard.            *)
(*                                                                         *)
(* The two fetch functions get_current_weather and get_detailed_forecast   *)
(* are wrapped by @st.cache_data(ttl=3600).  The wrapper is modelled by    *)
(* what it does for these functions: one cache per decorated function,     *)
(* entries keyed by the call arguments, an entry holding the returned      *)
(* value (whatever it is, None included) and the st.error elements the     *)
(* body emitted (they are replayed on a hit), an entry being served while  *)
(* it is younger than ttl seconds, and a per-key lock taken around the     *)
(* computation of a missing value.                                         *)
(*                                                                         *)
(* Python values are tagged records: None is [tag |-> "None"], a parsed    *)
(* JSON object is [tag |-> "json", req |-> ..., data |-> dict] where dict  *)
(* is a function from keys to values and req is a history field naming the *)
(* HTTP request that produced the response.  Display strings are ASCII     *)
(* stand-ins for the Korean and Chinese texts of the source.               *)
(***************************************************************************)
EXTENDS Integers, Sequences, FiniteSets, TLC

VARIABLES
    now,            \* wall clock in seconds (the cache's timer)
    cache,          \* st.cache_data storage: key -> entry
    nGets,          \* number of requests.get calls issued so far
    fetched,        \* history: key -> the last call of that key that issued a GET
    last,           \* history: the fetch calls of the most recent handler
    screen,         \* what the most recent handler rendered
    weather_code,   \* argument of get_weather_description
    description,    \* its result
    forecast_data,  \* argument of display_detailed_forecast
    df,             \* the hourly table it built
    pc,             \* position of each concurrent session in the cached call
    lock,           \* holder of the per-key compute lock (0: free)
    local           \* each concurrent session's call: arguments and result

vars == <<now, cache, nGets, fetched, last, screen, weather_code, description,
          forecast_data, df, pc, lock, local>>

----------------------------------------------------------------------------
(* Bounds of the model *)

MaxGets == 2        \* HTTP requests in one behaviour
MaxTime == 5000     \* the clock stops here
TickStep == 2400    \* seconds the clock advances in one step

MaxCode == 100      \* largest weather code tried
CodesBelow == 2     \* number of negative weather codes tried
MaxHours == 26      \* longest hourly sequence tried
MaxDelay == 20      \* seconds that pass while two sessions call concurrently

(* Program constants *)

ttl == 3600         \* @st.cache_data(ttl=3600)
HOURS == 24         \* hourly['time'][:24]
timeout == 10       \* requests.get(..., timeout=10)

Latitudes == {37, 38}
Longitudes == {126}

----------------------------------------------------------------------------
(* Python values *)

None == [tag |-> "None"]

EmptyDict == [k \in {} |-> 0]

Json(req, data) == [tag |-> "json", req |-> req, data |-> data]

\* bool(value) as used by `if not current_weather` and `if detailed_forecast`
Truthy(value) == value.tag = "json" /\ DOMAIN value.data # {}

\* dict.get(key, default)
Get(dict, key, default) == IF key \in DOMAIN dict THEN dict[key] ELSE default

Num(n) == [num |-> n]
Str(s) == [str |-> s]

Min(a, b) == IF a < b THEN a ELSE b

----------------------------------------------------------------------------
(* get_weather_description *)

\* the dict literal weather_codes; the labels are English stand-ins
weather_codes ==
    (0 :> "clear") @@ (1 :> "mainly clear") @@ (2 :> "partly cloudy") @@
    (3 :> "overcast") @@ (45 :> "fog") @@ (48 :> "rime fog") @@
    (51 :> "drizzle: light") @@ (53 :> "drizzle: moderate") @@
    (55 :> "drizzle: dense") @@ (61 :> "rain: slight") @@
    (63 :> "rain: moderate") @@ (65 :> "rain: heavy") @@
    (80 :> "showers: slight") @@ (81 :> "showers: moderate") @@
    (82 :> "showers: violent") @@ (95 :> "thunderstorm") @@
    (96 :> "thunderstorm with hail") @@
    (99 :> "thunderstorm with heavy hail")

UnknownLabel == "unknown"

\* faulty variant: a truthiness test on the code sends code 0 to the default
get_weather_description_falsy(code) ==
    IF code \in DOMAIN weather_codes /\ code # 0
    THEN weather_codes[code] ELSE UnknownLabel

get_weather_description(code) == Get(weather_codes, code, UnknownLabel)

----------------------------------------------------------------------------
(* The HTTP exchange: requests.get(url, params=params, timeout=10) and      *)
(* response.json().  A response is what the provider (or the network) does  *)
(* with one request; the model draws it from HttpGet.                       *)

Fields == {"temperature", "windspeed", "winddirection", "weathercode"}

FieldValue ==
    [f \in Fields |->
        CASE f = "temperature" -> 21
          [] f = "windspeed" -> 5
          [] f = "winddirection" -> 180
          [] f = "weathercode" -> 3]

Digits == <<"0", "1", "2", "3", "4", "5", "6", "7", "8", "9">>

\* the ISO-8601 timestamp of hour h of the forecast, as a sequence of characters
Stamp(h) ==
    <<"2", "0", "2", "4", "-", "0", "1", "-", "0", Digits[(h \div 24) + 2], "T",
      Digits[((h % 24) \div 10) + 1], Digits[((h % 24) % 10) + 1], ":", "0", "0">>

\* an hourly object with n timestamps from hour `start` on and m temperatures
Hourly(n, m, start, base) ==
    [time |-> [i \in 1..n |-> Stamp(start + i - 1)],
     temperature_2m |-> [i \in 1..m |-> base + ((i * 7) % 30)]]

\* a current-conditions body whose current_weather object has the fields S
CurrentBody(S) == [current_weather |-> [f \in S |-> FieldValue[f]]]

CurrentBodies == {EmptyDict, CurrentBody(Fields)}

\* every current_weather object that lacks a subset of the four fields
PartialBodies == {CurrentBody(S) : S \in SUBSET Fields}

ForecastBodies ==
    {EmptyDict, [hourly |-> Hourly(2, 2, 23, 10)]}

Bodies(query) == IF query = "current" THEN CurrentBodies ELSE ForecastBodies

FailStatuses == {500}

Request(query, latitude, longitude, serial) ==
    [query |-> query, latitude |-> latitude, longitude |-> longitude, serial |-> serial]

Response(exc, status_code, parses, json) ==
    [exc |-> exc, status_code |-> status_code, parses |-> parses, json |-> json]

NoResponse == Response("none", 0, FALSE, None)

HttpGet(query, latitude, longitude, serial, bodies) ==
    {Response("Timeout", 0, FALSE, None)}
    \cup {Response("none", s, TRUE, None) : s \in FailStatuses}
    \cup {Response("none", 200, FALSE, None)}
    \cup {Response("none", 200, TRUE, Json(Request(query, latitude, longitude, serial), d)) :
            d \in bodies}

\* st.error(...) elements
Notice(msg, status_code, exc) == [msg |-> msg, status_code |-> status_code, exc |-> exc]

Returned(value, msgs) == [value |-> value, msgs |-> msgs]

\* the exception the try block raises, "none" when it raises none
Raised(resp) ==
    IF resp.exc # "none" THEN resp.exc
    ELSE IF resp.status_code = 200 /\ ~resp.parses THEN "JSONDecodeError"
    ELSE "none"

\* faulty variant: a non-200 status is reported by no notice
get_current_weather_silent(latitude, longitude, resp) ==
    IF Raised(resp) # "none"
    THEN Returned(None, <<Notice("weather fetch error", 0, Raised(resp))>>)
    ELSE IF resp.status_code = 200
    THEN Returned(resp.json, <<>>)
    ELSE Returned(None, <<>>)

get_current_weather(latitude, longitude, resp) ==
    IF Raised(resp) # "none"
    THEN Returned(None, <<Notice("weather fetch error", 0, Raised(resp))>>)
    ELSE IF resp.status_code = 200
    THEN Returned(resp.json, <<>>)
    ELSE Returned(None, <<Notice("weather API request failed", resp.status_code, "none")>>)

get_detailed_forecast(latitude, longitude, resp) ==
    IF Raised(resp) # "none"
    THEN Returned(None, <<Notice("forecast fetch error", 0, Raised(resp))>>)
    ELSE IF resp.status_code = 200
    THEN Returned(resp.json, <<>>)
    ELSE Returned(None, <<>>)

Compute(query, latitude, longitude, resp) ==
    IF query = "current"
    THEN get_current_weather(latitude, longitude, resp)
    ELSE get_detailed_forecast(latitude, longitude, resp)


----------------------------------------------------------------------------
(* @st.cache_data(ttl=3600) *)

Queries == {"current", "forecast"}

\* faulty variant: one cache shared by the two decorated functions
CacheKey_shared(query, latitude, longitude) == <<"current", latitude, longitude>>

\* each decorated function has its own cache; inside it the key is the arguments
CacheKey(query, latitude, longitude) == <<query, latitude, longitude>>

Keys == {CacheKey(q, la, lo) : q \in Queries, la \in Latitudes, lo \in Longitudes}

Entry(value, msgs, storedAt) ==
    [present |-> TRUE, value |-> value, msgs |-> msgs, storedAt |-> storedAt]

NoEntry == [present |-> FALSE, value |-> None, msgs |-> <<>>, storedAt |-> 0]

\* faulty variant: entries never expire
IsFresh_forever(entry, t) == entry.present

\* faulty variant: nothing is ever served from the cache
IsFresh_never(entry, t) == FALSE

\* an entry is served while it is younger than ttl
IsFresh(entry, t) == entry.present /\ t < entry.storedAt + ttl

\* the returned value and the recorded st elements replace the entry as a whole
Store(c, key, ret, t) == [c EXCEPT ![key] = Entry(ret.value, ret.msgs, t)]

\* the responses a call may meet: a request is issued only on a miss
Responses(c, n, t, query, latitude, longitude, bodies) ==
    IF IsFresh(c[CacheKey(query, latitude, longitude)], t)
    THEN {NoResponse}
    ELSE HttpGet(query, latitude, longitude, n + 1, bodies)

\* One call of a decorated function by a single session (the compute lock is
\* uncontended).  c, n: the cache and the request counter before the call;
\* resp: the response the request gets if one is issued.
CachedCall(c, n, t, query, latitude, longitude, resp) ==
    LET key == CacheKey(query, latitude, longitude)
        entry == c[key]
    IN  IF IsFresh(entry, t)
        THEN [cache |-> c, nGets |-> n, value |-> entry.value,
              msgs |-> entry.msgs, gets |-> 0]
        ELSE LET ret == Compute(query, latitude, longitude, resp)
             IN  [cache |-> Store(c, key, ret, t), nGets |-> n + 1,
                  value |-> ret.value, msgs |-> ret.msgs, gets |-> 1]

----------------------------------------------------------------------------
(* The views *)

NA == Str("N/A")

\* the four cards of display_current_weather
display_current_weather(weather_data) ==
    LET current == Get(weather_data.data, "current_weather", EmptyDict)
        shown(f) == IF f \in DOMAIN current THEN Num(current[f]) ELSE NA
    IN  [temp |-> shown("temperature"),
         windspeed |-> shown("windspeed"),
         winddir |-> shown("winddirection"),
         weather_desc |-> get_weather_description(Get(current, "weathercode", 0))]

\* faulty variant: the slice keeps the last 24 entries
Take_last(seq, k) == SubSeq(seq, Len(seq) - Min(k, Len(seq)) + 1, Len(seq))

\* seq[:k]
Take(seq, k) == SubSeq(seq, 1, Min(k, Len(seq)))

\* t[11:16] of a string t
HHMM(t) == SubSeq(t, 12, Min(16, Len(t)))

NoTable == [built |-> FALSE, raised |-> "none", rows |-> <<>>]

\* pd.DataFrame({...}) of two columns: the lengths must agree
DataFrame(col1, col2) ==
    IF Len(col1) # Len(col2)
    THEN [built |-> FALSE, raised |-> "ValueError", rows |-> <<>>]
    ELSE [built |-> TRUE, raised |-> "none",
          rows |-> [i \in 1..Len(col1) |-> [time |-> col1[i], temp |-> col2[i]]]]

\* the hourly table of display_detailed_forecast
display_detailed_forecast(data) ==
    LET hourly == Get(data.data, "hourly", EmptyDict)
    IN  IF DOMAIN hourly # {} /\ "time" \in DOMAIN hourly /\ "temperature_2m" \in DOMAIN hourly
        THEN LET times == Take(hourly["time"], HOURS)
                 temperatures == Take(hourly["temperature_2m"], HOURS)
             IN  DataFrame([i \in 1..Len(times) |-> HHMM(times[i])], temperatures)
        ELSE NoTable

NoCards == [temp |-> NA, windspeed |-> NA, winddir |-> NA, weather_desc |-> "none"]

Screen(failure, current, cards, forecast, table) ==
    [failure |-> failure, current |-> current, cards |-> cards,
     forecast |-> forecast, table |-> table]

Blank == Screen(FALSE, FALSE, NoCards, FALSE, NoTable)

\* faulty variant: the forecast is shown whenever it was requested
Render_always(current_weather, detailed_forecast) ==
    IF ~Truthy(current_weather)
    THEN Screen(TRUE, FALSE, NoCards, FALSE, NoTable)
    ELSE Screen(FALSE, TRUE, display_current_weather(current_weather), TRUE,
                IF detailed_forecast.tag = "json"
                THEN display_detailed_forecast(detailed_forecast) ELSE NoTable)

\* display_weather_data after the two fetches
Render(current_weather, detailed_forecast) ==
    IF ~Truthy(current_weather)
    THEN Screen(TRUE, FALSE, NoCards, FALSE, NoTable)
    ELSE IF Truthy(detailed_forecast)
    THEN Screen(FALSE, TRUE, display_current_weather(current_weather), TRUE,
                display_detailed_forecast(detailed_forecast))
    ELSE Screen(FALSE, TRUE, display_current_weather(current_weather), FALSE, NoTable)


----------------------------------------------------------------------------
(* History of the fetch calls *)

HistKeys == Queries \X Latitudes \X Longitudes

NoFetch == [valid |-> FALSE, time |-> 0, value |-> None]

\* one call: its arguments, the entry and the last fetch of its key before the
\* call, the number of requests it issued, the response to that request, and
\* what it returned
CallRec(query, latitude, longitude, t, c, f, r, resp) ==
    [query |-> query, latitude |-> latitude, longitude |-> longitude, time |-> t,
     prior |-> c[CacheKey(query, latitude, longitude)],
     priorFetch |-> f[<<query, latitude, longitude>>],
     gets |-> r.gets,
     resp |-> IF r.gets = 0 THEN NoResponse ELSE [resp EXCEPT !.json = None],
     value |-> r.value, msgs |-> r.msgs]

Remember(f, query, latitude, longitude, t, r) ==
    IF r.gets = 0 THEN f
    ELSE [f EXCEPT ![<<query, latitude, longitude>>] =
            [valid |-> TRUE, time |-> t, value |-> r.value]]

----------------------------------------------------------------------------
(* The dashboard of one session *)

IdleRest ==
    /\ weather_code = 0
    /\ description = "unset"
    /\ forecast_data = None
    /\ df = NoTable
    /\ pc = <<>>
    /\ lock = 0
    /\ local = <<>>

Init ==
    /\ now = 0
    /\ cache = [k \in Keys |-> NoEntry]
    /\ nGets = 0
    /\ fetched = [k \in HistKeys |-> NoFetch]
    /\ last = <<>>
    /\ screen = Blank
    /\ IdleRest

UnchangedRest == UNCHANGED <<weather_code, description, forecast_data, df, pc, lock, local>>

\* time passes between two handlers
Tick ==
    /\ now + TickStep <= MaxTime
    /\ now' = now + TickStep
    /\ UNCHANGED <<cache, nGets, fetched, last, screen>>
    /\ UnchangedRest

\* a call of one fetch function (fetchCurrent, fetchForecast)
Fetch(query, latitude, longitude) ==
    \E resp \in Responses(cache, nGets, now, query, latitude, longitude, Bodies(query)) :
        LET r == CachedCall(cache, nGets, now, query, latitude, longitude, resp)
        IN  /\ r.nGets <= MaxGets
            /\ cache' = r.cache
            /\ nGets' = r.nGets
            /\ fetched' = Remember(fetched, query, latitude, longitude, now, r)
            /\ last' = <<CallRec(query, latitude, longitude, now, cache, fetched, r, resp)>>
            /\ UNCHANGED <<now, screen>>
            /\ UnchangedRest

FetchCurrent == \E la \in Latitudes, lo \in Longitudes : Fetch("current", la, lo)

FetchForecast == \E la \in Latitudes, lo \in Longitudes : Fetch("forecast", la, lo)

\* display_weather_data(latitude, longitude), the provider answering with
\* bodies of the two given sets
Display(currentBodies, forecastBodies) ==
    \E la \in Latitudes, lo \in Longitudes :
    \E resp1 \in Responses(cache, nGets, now, "current", la, lo, currentBodies) :
        LET r1 == CachedCall(cache, nGets, now, "current", la, lo, resp1)
            f1 == Remember(fetched, "current", la, lo, now, r1)
        IN  \E resp2 \in Responses(r1.cache, r1.nGets, now, "forecast", la, lo, forecastBodies) :
                LET r2 == CachedCall(r1.cache, r1.nGets, now, "forecast", la, lo, resp2)
                IN  /\ r2.nGets <= MaxGets
                    /\ cache' = r2.cache
                    /\ nGets' = r2.nGets
                    /\ fetched' = Remember(f1, "forecast", la, lo, now, r2)
                    /\ last' = <<CallRec("current", la, lo, now, cache, fetched, r1, resp1),
                                 CallRec("forecast", la, lo, now, r1.cache, f1, r2, resp2)>>
                    /\ screen' = Render(r1.value, r2.value)
                    /\ UNCHANGED now
                    /\ UnchangedRest

DisplayWeatherData == Display(CurrentBodies, ForecastBodies)

Next == Tick \/ FetchCurrent \/ FetchForecast \/ DisplayWeatherData

Spec == Init /\ [][Next]_vars


----------------------------------------------------------------------------
(* Properties of the fetch calls *)

Calls == {last[i] : i \in DOMAIN last}

\* the call issued a request and the request failed
Failed(c) == c.gets = 1 /\ (Raised(c.resp) # "none" \/ c.resp.status_code # 200)

\* the call issued a request and got a parsed 200 response
Succeeded(c) == c.gets = 1 /\ ~Failed(c)

\* the call follows, inside the cache window, a call of its key that fetched
InWindow(c) == c.priorFetch.valid /\ c.time - c.priorFetch.time < ttl

\* C1: a call of get_current_weather made less than 3600 seconds after a call
\* with the same coordinate that issued the HTTP GET issues no GET of its own
\* and returns the value that call returned.
C1_SecondCallServedFromCache ==
    \A c \in Calls :
        (c.query = "current" /\ InWindow(c)) =>
            (c.gets = 0 /\ c.value = c.priorFetch.value)

C1_Witness ==
    \E c \in Calls :
        /\ c.query = "current" /\ InWindow(c) /\ c.time > c.priorFetch.time
        /\ c.gets = 0 /\ c.value.tag = "json" /\ nGets = 1

\* C2 as claimed: after a fetch that failed no entry exists for its key, and a
\* call that follows a failed fetch of its key inside the window issues a GET.
C2_FailureLeavesNoEntry ==
    \A c \in Calls :
        /\ Failed(c) => ~cache[CacheKey(c.query, c.latitude, c.longitude)].present
        /\ (InWindow(c) /\ c.priorFetch.value = None) => c.gets = 1

\* the entry a call found was present and younger than 3600 seconds
FoundFresh(c) == c.prior.present /\ c.time - c.prior.storedAt < ttl

C7_ValueOfOwnKey ==
    \A c \in Calls :
        c.value.tag = "json" =>
            /\ c.value.req.query = c.query
            /\ c.value.req.latitude = c.latitude
            /\ c.value.req.longitude = c.longitude

C7_Witness ==
    \E c \in Calls :
        /\ c.gets = 0 /\ c.value.tag = "json" /\ c.query = "forecast"
        /\ \E k \in DOMAIN cache :
              /\ cache[k].present /\ cache[k].value.tag = "json"
              /\ cache[k].value.req.query = "current"
              /\ cache[k].value.req.latitude = c.latitude

----------------------------------------------------------------------------
(* Properties of display_weather_data *)

Displayed == Len(last) = 2

InOrder ==
    /\ last[1].query = "current" /\ last[2].query = "forecast"
    /\ last[1].latitude = last[2].latitude /\ last[1].longitude = last[2].longitude

\* C10 as claimed: the failure notice is shown, and neither view, exactly when
\* the current fetch failed; otherwise the current view is shown, and the
\* forecast view if and only if the forecast fetch succeeded.
C10_NoticeIffFetchFailed ==
    Displayed =>
        /\ InOrder
        /\ screen.failure <=> (last[1].value = None)
        /\ screen.failure => (~screen.current /\ ~screen.forecast)
        /\ ~screen.failure =>
            (screen.current /\ (screen.forecast <=> (last[2].value # None)))

\* C10 amended: the two fetches are invoked in order on every call; the failure
\* notice is shown, and neither view, exactly when the current fetch returned a
\* falsy value (None after a failure, or a falsy body such as the empty
\* object of a 200 response);
\* otherwise the current view is shown, and the forecast view if and only if
\* the forecast fetch returned a truthy value.
C10_NoticeIffFalsy ==
    Displayed =>
        /\ InOrder
        /\ screen.failure <=> ~Truthy(last[1].value)
        /\ screen.failure => (~screen.current /\ ~screen.forecast)
        /\ ~screen.failure =>
            (screen.current /\ (screen.forecast <=> Truthy(last[2].value)))

C10_Witness ==
    /\ Displayed
    /\ last[1].value.tag = "json" /\ Truthy(last[1].value)
    /\ last[2].value.tag = "json" /\ ~Truthy(last[2].value)
    /\ screen.current /\ ~screen.forecast


----------------------------------------------------------------------------
(* The current-conditions cards over every partial current_weather object *)

DisplayPartial == Display(PartialBodies, ForecastBodies)

NextFields == Tick \/ DisplayPartial

SpecFields == Init /\ [][NextFields]_vars

Labels == {weather_codes[k] : k \in DOMAIN weather_codes}

\* C8 as claimed: when the 200 response has a current_weather object, the
\* current view is rendered and every field the object lacks is shown as
\* unavailable, never as a weather value.
C8_MissingShownUnavailable ==
    (Displayed /\ last[1].value.tag = "json"
               /\ "current_weather" \in DOMAIN last[1].value.data) =>
        LET current == last[1].value.data["current_weather"]
        IN  /\ screen.current
            /\ "temperature" \notin DOMAIN current => screen.cards.temp = NA
            /\ "windspeed" \notin DOMAIN current => screen.cards.windspeed = NA
            /\ "winddirection" \notin DOMAIN current => screen.cards.winddir = NA
            /\ "weathercode" \notin DOMAIN current => screen.cards.weather_desc \notin Labels

----------------------------------------------------------------------------
(* get_weather_description over a range of codes *)

Codes == (0 - CodesBelow)..MaxCode

InitDescribe ==
    /\ weather_code = 0
    /\ description = "unset"
    /\ now = 0
    /\ cache = [k \in Keys |-> NoEntry]
    /\ nGets = 0
    /\ fetched = [k \in HistKeys |-> NoFetch]
    /\ last = <<>>
    /\ screen = Blank
    /\ forecast_data = None
    /\ df = NoTable
    /\ pc = <<>>
    /\ lock = 0
    /\ local = <<>>

Describe ==
    \E code \in Codes :
        /\ weather_code' = code
        /\ description' = get_weather_description(code)
        /\ UNCHANGED <<now, cache, nGets, fetched, last, screen, forecast_data, df,
                       pc, lock, local>>

SpecDescribe == InitDescribe /\ [][Describe]_vars

KnownCodes == {0, 1, 2, 3, 45, 48, 51, 53, 55, 61, 63, 65, 80, 81, 82, 95, 96, 99}

\* C5: each of the 18 table codes yields its own table label, different from
\* the labels of the other codes and from the unknown label, and every other
\* integer yields the unknown label.
C5_DescribeTotal ==
    description # "unset" =>
        /\ weather_code \in KnownCodes =>
            /\ description = weather_codes[weather_code]
            /\ description # UnknownLabel
            /\ \A k \in KnownCodes \ {weather_code} : description # weather_codes[k]
        /\ weather_code \notin KnownCodes => description = UnknownLabel
        /\ DOMAIN weather_codes = KnownCodes /\ Cardinality(KnownCodes) = 18

C5_Witness == weather_code = 0 /\ description = "clear"

----------------------------------------------------------------------------
(* display_detailed_forecast over hourly sequences of every length *)

HourlyInputs ==
    {Hourly(n, n, start, base) :
        n \in 0..MaxHours, start \in {0, 23}, base \in {-5, 10}}
    \cup {Hourly(n, n + 1, 0, 10) : n \in 0..MaxHours}

BuildTable ==
    \E h \in HourlyInputs, la \in Latitudes, lo \in Longitudes :
        LET data == Json(Request("forecast", la, lo, 1), [hourly |-> h])
        IN  /\ forecast_data' = data
            /\ df' = display_detailed_forecast(data)
            /\ UNCHANGED <<now, cache, nGets, fetched, last, screen, weather_code,
                           description, pc, lock, local>>

SpecTable == Init /\ [][BuildTable]_vars

\* C6: for hourly data of n timestamps and n temperatures the table has
\* min(24, n) rows, and row i holds characters 12 to 16 (HH:MM) of the i-th
\* timestamp and the i-th temperature.
C6_FirstDayInOrder ==
    forecast_data # None =>
        LET times == forecast_data.data["hourly"]["time"]
            temps == forecast_data.data["hourly"]["temperature_2m"]
            n == Len(times)
        IN  Len(temps) = n =>
              /\ df.built
              /\ Len(df.rows) = (IF n < 24 THEN n ELSE 24)
              /\ \A i \in 1..Len(df.rows) :
                    /\ df.rows[i].time = <<times[i][12], times[i][13], times[i][14],
                                           times[i][15], times[i][16]>>
                    /\ df.rows[i].temp = temps[i]

C6_Witness ==
    /\ forecast_data # None
    /\ Len(forecast_data.data["hourly"]["time"]) = 26
    /\ df.built /\ Len(df.rows) = 24
    /\ df.rows[1].time = <<"2", "3", ":", "0", "0">>
    /\ df.rows[2].time = <<"0", "0", ":", "0", "0">>


----------------------------------------------------------------------------
(* Two sessions calling get_current_weather concurrently.  Each session's   *)
(* script runs in its own thread; the steps are those of the cached call:   *)
(* read the entry, on a miss take the key's compute lock, read again, call  *)
(* the function, write the entry, release the lock.                         *)

Sessions == {1, 2}

\* an entry a former call left behind: none, one that has expired, a fresh one
FormerEntries(latitude, longitude) ==
    {NoEntry,
     Entry(Json(Request("current", latitude, longitude, 0), CurrentBody(Fields)), <<>>, 0),
     Entry(Json(Request("current", latitude, longitude, 0), CurrentBody(Fields)), <<>>, ttl)}

Idle == [latitude |-> 0, longitude |-> 0, time |-> 0, prior |-> NoEntry,
         resp |-> NoResponse, value |-> None, msgs |-> <<>>]

InitConc ==
    /\ now = ttl
    /\ \E e \in FormerEntries(37, 126) :
          cache = [k \in Keys |-> IF k = CacheKey("current", 37, 126) THEN e ELSE NoEntry]
    /\ nGets = 0
    /\ fetched = [k \in HistKeys |-> NoFetch]
    /\ last = <<>>
    /\ screen = Blank
    /\ weather_code = 0
    /\ description = "unset"
    /\ forecast_data = None
    /\ df = NoTable
    /\ pc = [s \in Sessions |-> "idle"]
    /\ lock = [k \in Keys |-> 0]
    /\ local = [s \in Sessions |-> Idle]

UnchangedDashboard ==
    UNCHANGED <<fetched, last, screen, weather_code, description, forecast_data, df>>

KeyOf(s) == CacheKey("current", local[s].latitude, local[s].longitude)

\* the clock moves while the calls are under way
Pass ==
    /\ now + timeout <= ttl + MaxDelay
    /\ now' = now + timeout
    /\ UNCHANGED <<cache, nGets, pc, lock, local>>
    /\ UnchangedDashboard

\* session s calls get_current_weather(la, lo)
Call(s) ==
    \E la \in Latitudes, lo \in Longitudes :
        /\ pc[s] = "idle"
        /\ local' = [local EXCEPT ![s] =
              [Idle EXCEPT !.latitude = la, !.longitude = lo, !.time = now,
                           !.prior = cache[CacheKey("current", la, lo)]]]
        /\ pc' = [pc EXCEPT ![s] = "read"]
        /\ UNCHANGED <<now, cache, nGets, lock>>
        /\ UnchangedDashboard

\* the first read of the entry, outside the lock
Read(s) ==
    /\ pc[s] = "read"
    /\ IF IsFresh(cache[KeyOf(s)], now)
       THEN /\ local' = [local EXCEPT ![s].value = cache[KeyOf(s)].value,
                                      ![s].msgs = cache[KeyOf(s)].msgs]
            /\ pc' = [pc EXCEPT ![s] = "done"]
       ELSE /\ pc' = [pc EXCEPT ![s] = "acquire"]
            /\ UNCHANGED local
    /\ UNCHANGED <<now, cache, nGets, lock>>
    /\ UnchangedDashboard

\* faulty variant: the lock is taken without waiting for its holder
Acquire_unguarded(s) ==
    /\ pc[s] = "acquire"
    /\ lock' = [lock EXCEPT ![KeyOf(s)] = s]
    /\ pc' = [pc EXCEPT ![s] = "locked"]
    /\ UNCHANGED <<now, cache, nGets, local>>
    /\ UnchangedDashboard

\* with compute_value_lock(key): blocks while another session holds it
Acquire(s) ==
    /\ pc[s] = "acquire"
    /\ lock[KeyOf(s)] = 0
    /\ lock' = [lock EXCEPT ![KeyOf(s)] = s]
    /\ pc' = [pc EXCEPT ![s] = "locked"]
    /\ UNCHANGED <<now, cache, nGets, local>>
    /\ UnchangedDashboard

\* the second read, under the lock: another session may have written the entry
Reread(s) ==
    /\ pc[s] = "locked"
    /\ IF IsFresh(cache[KeyOf(s)], now)
       THEN /\ local' = [local EXCEPT ![s].value = cache[KeyOf(s)].value,
                                      ![s].msgs = cache[KeyOf(s)].msgs]
            /\ lock' = [lock EXCEPT ![KeyOf(s)] = 0]
            /\ pc' = [pc EXCEPT ![s] = "done"]
       ELSE /\ pc' = [pc EXCEPT ![s] = "compute"]
            /\ UNCHANGED <<local, lock>>
    /\ UNCHANGED <<now, cache, nGets>>
    /\ UnchangedDashboard

\* the function body: requests.get and response.json()
CallBody(s) ==
    /\ pc[s] = "compute"
    /\ nGets < MaxGets
    /\ \E resp \in HttpGet("current", local[s].latitude, local[s].longitude,
                           nGets + 1, CurrentBodies) :
          LET ret == get_current_weather(local[s].latitude, local[s].longitude, resp)
          IN  local' = [local EXCEPT ![s].resp = [resp EXCEPT !.json = None],
                                     ![s].value = ret.value, ![s].msgs = ret.msgs]
    /\ nGets' = nGets + 1
    /\ pc' = [pc EXCEPT ![s] = "write"]
    /\ UNCHANGED <<now, cache, lock>>
    /\ UnchangedDashboard

\* write the entry and leave the with block
Write(s) ==
    /\ pc[s] = "write"
    /\ cache' = Store(cache, KeyOf(s), Returned(local[s].value, local[s].msgs), now)
    /\ lock' = [lock EXCEPT ![KeyOf(s)] = 0]
    /\ pc' = [pc EXCEPT ![s] = "done"]
    /\ UNCHANGED <<now, nGets, local>>
    /\ UnchangedDashboard

NextConc ==
    \/ Pass
    \/ \E s \in Sessions : Call(s)
    \/ \E s \in Sessions : Read(s)
    \/ \E s \in Sessions : Acquire(s)
    \/ \E s \in Sessions : Reread(s)
    \/ \E s \in Sessions : CallBody(s)
    \/ \E s \in Sessions : Write(s)

SpecConc == InitConc /\ [][NextConc]_vars

BothDone == \A s \in Sessions : pc[s] = "done"

SameCoordinate ==
    /\ local[1].latitude = local[2].latitude
    /\ local[1].longitude = local[2].longitude

\* some session called while the cache held no unexpired entry for the key
CalledOnMiss == \E s \in Sessions : ~FoundFresh(local[s])

\* C9: when the two sessions have called get_current_weather for the same
\* coordinate and the cache held no unexpired entry for it, exactly one HTTP
\* GET was issued and both sessions got the same value.
C9_OneFetchForTwoCallers ==
    (BothDone /\ SameCoordinate /\ CalledOnMiss) =>
        (nGets = 1 /\ local[1].value = local[2].value)

C9_Witness ==
    /\ BothDone /\ SameCoordinate
    /\ \A s \in Sessions : ~local[s].prior.present
    /\ nGets = 1
    /\ local[1].value.tag = "json" /\ local[1].value = local[2].value


====
